---------------------------- MODULE Spec2Model ----------------------------
(***************************************************************************)
(* Model of src/analytics/analyze_experiments.py (class ABTestAnalyzer).   *)
(*                                                                         *)
(* The statistics of the analyzer are computed in IEEE-754 binary64        *)
(* arithmetic (Python float / numpy.float64).  Several properties of the   *)
(* program are decided by the last bit of a result, so the arithmetic is   *)
(* modelled bit-exactly: a float is a sign, a 53-bit significand and a     *)
(* binary exponent, and every operation rounds to nearest, ties to even.   *)
(* Significands do not fit TLC's integers, so they are kept as sequences   *)
(* of 15-bit limbs (least significant first).                              *)
(***************************************************************************)
EXTENDS Integers, Sequences, FiniteSets, TLC

(***************************************************************************)
(* Natural numbers of arbitrary size: little-endian sequences of limbs,    *)
(* no leading zero limb, zero is the empty sequence.                       *)
(***************************************************************************)
BASE == 32768

LIMBBITS == 15

Max(a, b) == IF a >= b THEN a ELSE b

Min(a, b) == IF a <= b THEN a ELSE b

\* an intermediate result of the program, computed once and named: with f
\* the function [x \in {value} |-> result], Let(f) is the result for that value
Let(f) == f[CHOOSE v \in DOMAIN f : TRUE]

RECURSIVE Trim(_)
Trim(a) ==
    IF a = <<>> THEN a
    ELSE IF a[Len(a)] = 0 THEN Trim(SubSeq(a, 1, Len(a) - 1)) ELSE a

Limb(a, i) == IF i >= 1 /\ i <= Len(a) THEN a[i] ELSE 0

RECURSIVE BigOf(_)
BigOf(n) == IF n = 0 THEN <<>> ELSE <<n % BASE>> \o BigOf(n \div BASE)

RECURSIVE AddFrom(_, _, _, _)
AddFrom(a, b, i, c) ==
    IF i > Len(a) /\ i > Len(b)
    THEN (IF c = 0 THEN <<>> ELSE <<c>>)
    ELSE LET s == Limb(a, i) + Limb(b, i) + c
         IN  <<s % BASE>> \o AddFrom(a, b, i + 1, s \div BASE)

BAdd(a, b) == AddFrom(a, b, 1, 0)

RECURSIVE SubFrom(_, _, _, _)
SubFrom(a, b, i, c) ==
    IF i > Len(a) THEN <<>>
    ELSE LET d == a[i] - Limb(b, i) - c
         IN  <<IF d < 0 THEN d + BASE ELSE d>>
                 \o SubFrom(a, b, i + 1, IF d < 0 THEN 1 ELSE 0)

\* a - b for a >= b
BSub(a, b) == Trim(SubFrom(a, b, 1, 0))

RECURSIVE CmpFrom(_, _, _)
CmpFrom(a, b, i) ==
    IF i = 0 THEN 0
    ELSE IF a[i] > b[i] THEN 1
    ELSE IF a[i] < b[i] THEN -1
    ELSE CmpFrom(a, b, i - 1)

\* -1, 0, 1 as a < b, a = b, a > b
BCmp(a, b) ==
    IF Len(a) > Len(b) THEN 1
    ELSE IF Len(a) < Len(b) THEN -1
    ELSE CmpFrom(a, b, Len(a))

RECURSIVE MulLimbFrom(_, _, _, _)
MulLimbFrom(a, d, i, c) ==
    IF i > Len(a)
    THEN (IF c = 0 THEN <<>> ELSE <<c>>)
    ELSE LET p == a[i] * d + c
         IN  <<p % BASE>> \o MulLimbFrom(a, d, i + 1, p \div BASE)

\* a * d + c for one limb d and a carry c < BASE
BMulLimb(a, d, c) == Trim(MulLimbFrom(a, d, 1, c))

ShiftLimbs(a, k) == IF a = <<>> THEN a ELSE [i \in 1..k |-> 0] \o a

RECURSIVE MulFrom(_, _, _)
MulFrom(a, b, j) ==
    IF j > Len(b) THEN <<>>
    ELSE BAdd(BMulLimb(a, b[j], 0), ShiftLimbs(MulFrom(a, b, j + 1), 1))

BMul(a, b) == IF a = <<>> \/ b = <<>> THEN <<>> ELSE Trim(MulFrom(a, b, 1))

BShl(a, k) == ShiftLimbs(BMulLimb(a, 2 ^ (k % LIMBBITS), 0), k \div LIMBBITS)

BShr(a, k) ==
    LET w == k \div LIMBBITS
        r == k % LIMBBITS
        n == Len(a)
    IN  IF w >= n THEN <<>>
        ELSE Trim([i \in 1..(n - w) |->
                     (a[i + w] \div (2 ^ r))
                       + (Limb(a, i + w + 1) % (2 ^ r)) * (2 ^ (LIMBBITS - r))])

RECURSIVE IntBitLen(_)
IntBitLen(n) == IF n = 0 THEN 0 ELSE 1 + IntBitLen(n \div 2)

BitLen(a) ==
    IF a = <<>> THEN 0 ELSE LIMBBITS * (Len(a) - 1) + IntBitLen(a[Len(a)])

\* bit i of a, bit 0 the least significant
BBit(a, i) == (Limb(a, (i \div LIMBBITS) + 1) \div (2 ^ (i % LIMBBITS))) % 2

BOdd(a) == Limb(a, 1) % 2 = 1

\* the low k bits of a
BLow(a, k) == BSub(a, BShl(BShr(a, k), k))

RECURSIVE QFix(_, _, _)
QFix(r, b, d) ==
    IF BCmp(BMulLimb(b, d, 0), r) <= 0 THEN d ELSE QFix(r, b, d - 1)

\* the quotient digit r div b for r < b * BASE and a top limb of b of at
\* least BASE / 2: the estimate from the leading limbs is at most 2 too large
QDigit(r, b) ==
    LET t  == Len(b)
        hi == Limb(r, t + 1) * BASE + Limb(r, t)
    IN  QFix(r, b, Min(hi \div b[t], BASE - 1))

RECURSIVE DivStep(_, _, _, _, _)
DivStep(a, b, i, q, r) ==
    IF i < 1 THEN <<Trim(q), r>>
    ELSE Let([r2 \in {Trim(<<a[i]>> \o r)} |->
         Let([d \in {QDigit(r2, b)} |->
         Let([r3 \in {BSub(r2, BMulLimb(b, d, 0))} |->
             DivStep(a, b, i - 1, <<d>> \o q, r3)])])])

\* <<a div b, a mod b>> for b > 0, by long division, one limb of a at a time
BDivMod(a, b) ==
    Let([s \in {LIMBBITS - IntBitLen(b[Len(b)])} |->
    Let([an \in {BShl(a, s)} |->
    Let([qr \in {DivStep(an, BShl(b, s), Len(an), <<>>, <<>>)} |->
        <<qr[1], BShr(qr[2], s)>>])])])

RECURSIVE SqrtStep(_, _)
SqrtStep(a, x) ==
    Let([y \in {BShr(BAdd(x, BDivMod(a, x)[1]), 1)} |->
        IF BCmp(y, x) >= 0 THEN x ELSE SqrtStep(a, y)])

\* floor of the square root of a, by Newton's iteration from above
BSqrt(a) == IF a = <<>> THEN a ELSE SqrtStep(a, BShl(<<1>>, (BitLen(a) + 1) \div 2))

(***************************************************************************)
(* IEEE-754 binary64 values.  A number is (-1)^s * m * 2^e with m either   *)
(* zero or exactly 53 bits long; nan and inf are the special values numpy  *)
(* produces for sqrt of a negative number and for division by zero.  The   *)
(* exponent range is not modelled: no value of the analyzer comes near     *)
(* overflow or the subnormal range for the inputs considered here.         *)
(***************************************************************************)
PREC == 53

FZero == [k |-> "num", s |-> 0, m |-> <<>>, e |-> 0]

NaN == [k |-> "nan", s |-> 0, m |-> <<>>, e |-> 0]

Inf(s) == [k |-> "inf", s |-> s, m |-> <<>>, e |-> 0]

IsNum(x) == x.k = "num"

IsZero(x) == x.k = "num" /\ x.m = <<>>

\* round (-1)^s * (M + sticky fraction) * 2^e to nearest, ties to even
FRound(s, M, e, sticky) ==
    IF M = <<>> THEN FZero
    ELSE Let([L \in {BitLen(M)} |->
         IF L <= PREC
         THEN [k |-> "num", s |-> s, m |-> BShl(M, PREC - L), e |-> e - (PREC - L)]
         ELSE Let([sh \in {L - PREC}, q \in {BShr(M, L - PREC)} |->
              Let([c \in {BCmp(BLow(M, sh), BShl(<<1>>, sh - 1))} |->
              Let([up \in {c > 0 \/ (c = 0 /\ (sticky \/ BOdd(q)))} |->
              Let([q2 \in {IF up THEN BMulLimb(q, 1, 1) ELSE q} |->
                  IF BitLen(q2) > PREC
                  THEN [k |-> "num", s |-> s, m |-> BShr(q2, 1), e |-> e + sh + 1]
                  ELSE [k |-> "num", s |-> s, m |-> q2, e |-> e + sh]])])])])])

\* an integer of the program as a float (exact below 2^53)
FInt(n) == FRound(IF n < 0 THEN 1 ELSE 0, BigOf(IF n < 0 THEN 0 - n ELSE n), 0, FALSE)

FNeg(x) == IF IsZero(x) \/ x.k = "nan" THEN x ELSE [x EXCEPT !.s = 1 - x.s]

\* -1, 0, 1 for two numbers
FCmpNum(x, y) ==
    IF IsZero(x) /\ IsZero(y) THEN 0
    ELSE IF IsZero(x) THEN (IF y.s = 0 THEN -1 ELSE 1)
    ELSE IF IsZero(y) THEN (IF x.s = 0 THEN 1 ELSE -1)
    ELSE IF x.s # y.s THEN (IF x.s = 0 THEN 1 ELSE -1)
    ELSE LET mag == IF x.e > y.e THEN 1
                    ELSE IF x.e < y.e THEN -1
                    ELSE BCmp(x.m, y.m)
         IN  IF x.s = 0 THEN mag ELSE 0 - mag

FCmp(x, y) ==
    IF x.k = "inf" /\ y.k = "inf" THEN (IF x.s = y.s THEN 0 ELSE IF x.s = 0 THEN 1 ELSE -1)
    ELSE IF x.k = "inf" THEN (IF x.s = 0 THEN 1 ELSE -1)
    ELSE IF y.k = "inf" THEN (IF y.s = 0 THEN -1 ELSE 1)
    ELSE FCmpNum(x, y)

\* comparisons with a nan are false
FLt(x, y) == x.k # "nan" /\ y.k # "nan" /\ FCmp(x, y) < 0

FLe(x, y) == x.k # "nan" /\ y.k # "nan" /\ FCmp(x, y) <= 0

FGt(x, y) == FLt(y, x)

FEq(x, y) == x.k # "nan" /\ y.k # "nan" /\ FCmp(x, y) = 0

FAdd(x, y) ==
    IF x.k = "nan" \/ y.k = "nan" THEN NaN
    ELSE IF x.k = "inf" THEN (IF y.k = "inf" /\ y.s # x.s THEN NaN ELSE x)
    ELSE IF y.k = "inf" THEN y
    ELSE IF IsZero(x) THEN y
    ELSE IF IsZero(y) THEN x
    ELSE IF x.e - y.e > 120 THEN x
    ELSE IF y.e - x.e > 120 THEN y
    ELSE Let([e \in {Min(x.e, y.e)} |->
         Let([Mx \in {BShl(x.m, x.e - e)}, My \in {BShl(y.m, y.e - e)} |->
         Let([c \in {BCmp(Mx, My)} |->
             IF x.s = y.s THEN FRound(x.s, BAdd(Mx, My), e, FALSE)
             ELSE IF c = 0 THEN FZero
             ELSE FRound(IF c > 0 THEN x.s ELSE y.s,
                         IF c > 0 THEN BSub(Mx, My) ELSE BSub(My, Mx), e, FALSE)])])])

FSub(x, y) == FAdd(x, FNeg(y))

FMul(x, y) ==
    IF x.k = "nan" \/ y.k = "nan" THEN NaN
    ELSE IF x.k = "inf" \/ y.k = "inf"
         THEN (IF IsZero(x) \/ IsZero(y) THEN NaN ELSE Inf((x.s + y.s) % 2))
    ELSE IF IsZero(x) \/ IsZero(y) THEN FZero
    ELSE FRound((x.s + y.s) % 2, BMul(x.m, y.m), x.e + y.e, FALSE)

\* numpy semantics: x / 0 is inf (nan for 0 / 0), never an exception
FDiv(x, y) ==
    IF x.k = "nan" \/ y.k = "nan" THEN NaN
    ELSE IF x.k = "inf" THEN (IF y.k = "inf" THEN NaN ELSE Inf((x.s + y.s) % 2))
    ELSE IF y.k = "inf" THEN FZero
    ELSE IF IsZero(y) THEN (IF IsZero(x) THEN NaN ELSE Inf(x.s))
    ELSE IF IsZero(x) THEN FZero
    ELSE Let([qr \in {BDivMod(BShl(x.m, 60), y.m)} |->
             FRound((x.s + y.s) % 2, qr[1], x.e - y.e - 60, qr[2] # <<>>)])

\* numpy.sqrt: nan for a negative argument
FSqrt(x) ==
    IF x.k = "nan" THEN NaN
    ELSE IF IsZero(x) THEN FZero
    ELSE IF x.s = 1 THEN NaN
    ELSE IF x.k = "inf" THEN x
    ELSE Let([sh \in {IF x.e % 2 = 0 THEN 58 ELSE 57} |->
         Let([M \in {BShl(x.m, sh)} |->
         Let([r \in {BSqrt(M)} |->
             FRound(0, r, (x.e - sh) \div 2, BMul(r, r) # M)])])])

\* the float nearest to the decimal literal n / d
FDec(n, d) == FDiv(FInt(n), FInt(d))

\* int(numpy.ceil(x)): an integer, or the exception int() raises
FCeilInt(x) ==
    IF x.k = "nan" THEN [kind |-> "raised", exc |-> "ValueError", value |-> 0]
    ELSE IF x.k = "inf" THEN [kind |-> "raised", exc |-> "OverflowError", value |-> 0]
    ELSE IF IsZero(x) THEN [kind |-> "int", exc |-> "", value |-> 0]
    ELSE Let([q \in {IF x.e >= 0 THEN BShl(x.m, x.e) ELSE BShr(x.m, 0 - x.e)} |->
         Let([frac \in {x.e < 0 /\ BLow(x.m, 0 - x.e) # <<>>} |->
         Let([mag \in {IF frac /\ x.s = 0 THEN BMulLimb(q, 1, 1) ELSE q} |->
         Let([v \in {Limb(mag, 1) + BASE * Limb(mag, 2) + BASE * BASE * Limb(mag, 3)} |->
             [kind |-> "int", exc |-> "", value |-> IF x.s = 0 THEN v ELSE 0 - v]])])])])

(***************************************************************************)
(* Bounds of the model.                                                    *)
(***************************************************************************)
MaxAssign == 2

MaxEvents == 2

MaxUsers == 6

MaxOther == 3

MaxMainEvents == 1

Users == {"u1", "u2"}

Variants == {"control", "treatment"}

Experiments == {"exp1", "exp2"}

EventTypes == {"purchase", "add_to_cart", "page_view"}

VARIABLES
    assignments,        \* table user_assignments, in insertion order
    events,             \* table analytics_events, in insertion order
    pc,                 \* position of the session
    df,                 \* DataFrame returned by get_experiment_data
    groups,             \* df as the statistics read it: per variant, the
                        \* number of rows and the sums of its columns
    conversion_stats,   \* result of calculate_conversion_rates
    significance_tests, \* outcome of statistical_significance_test
    exit_code,          \* return value of main
    ss_args,            \* arguments of the sample_size_analysis calls
    ss_results,         \* outcomes of the sample_size_analysis calls
    funnel_df,          \* DataFrame returned by funnel_analysis
    args,               \* command line of main, as parsed
    connects,           \* number of connections sqlite3.connect has opened
    conn                \* analyzer.conn: "none", "open" or "closed"

vars == <<assignments, events, pc, df, groups, conversion_stats,
          significance_tests, exit_code, ss_args, ss_results, funnel_df,
          args, connects, conn>>

dbVars == <<assignments, events>>

statVars == <<groups, conversion_stats, significance_tests, exit_code>>

sizeVars == <<ss_args, ss_results>>

mainVars == <<funnel_df, args, connects, conn>>

connVars == <<args, connects, conn>>

None == [kind |-> "none"]

(***************************************************************************)
(* The database.  totalAmount of an event's properties is absent (SQL      *)
(* NULL from json_extract), a string that is not a number, or a number.    *)
(***************************************************************************)
AmountNull == [t |-> "null", v |-> 0]

AmountText == [t |-> "text", v |-> 0]

AmountNum(n) == [t |-> "num", v |-> n]

Amounts == {AmountNull, AmountText, AmountNum(10), AmountNum(20)}

AssignmentRows == [user_id : Users, experiment_id : Experiments, variant_id : Variants]

EventRows ==
    [user_id : Users, event_type : {"purchase"}, amount : Amounts]
      \cup [user_id : Users, event_type : EventTypes \ {"purchase"}, amount : {AmountNull}]

SeqsUpTo(S, n) == UNION {[1..k -> S] : k \in 0..n}

(***************************************************************************)
(* get_experiment_data: the SQL query, then the two pandas column updates. *)
(***************************************************************************)
\* FROM user_assignments ua LEFT JOIN analytics_events ae
\*   ON ua.user_id = ae.user_id WHERE ua.experiment_id = ?
\* a joined row is <<i, j>>: assignment i with event j, j = 0 for the
\* all-NULL right side of an assignment whose user has no event
Joined(experiment_id) ==
    LET ua == {i \in DOMAIN assignments : assignments[i].experiment_id = experiment_id}
        ae(i) == {j \in DOMAIN events : events[j].user_id = assignments[i].user_id}
    IN  UNION {IF ae(i) = {} THEN {<<i, 0>>} ELSE {<<i, j>> : j \in ae(i)} : i \in ua}

\* COUNT(CASE WHEN ae.event_type = type THEN 1 END) over the rows of a group
CountType(rows, type) ==
    Cardinality({r \in rows : r[2] # 0 /\ events[r[2]].event_type = type})

\* SQLite's order of values: NULL, then numbers by value, then text
SqlLeq(x, y) ==
    \/ x.t = "null"
    \/ x.t = "num" /\ y.t = "num" /\ x.v <= y.v
    \/ x.t = "num" /\ y.t = "text"
    \/ x.t = "text" /\ y.t = "text"

\* MAX(CASE WHEN ae.event_type = 'purchase'
\*          THEN json_extract(ae.properties, '$.totalAmount') END)
MaxRevenue(rows) ==
    LET vals == {events[r[2]].amount :
                    r \in {q \in rows : q[2] # 0 /\ events[q[2]].event_type = "purchase"}}
                  \ {AmountNull}
    IN  IF vals = {} THEN AmountNull
        ELSE CHOOSE x \in vals : \A y \in vals : SqlLeq(y, x)

\* pd.to_numeric(errors='coerce').fillna(0)
ToNumericFillna(x) == IF x.t = "num" THEN x.v ELSE 0

\* GROUP BY ua.user_id, ua.variant_id
GroupKeys(rows) ==
    {<<assignments[r[1]].user_id, assignments[r[1]].variant_id>> : r \in rows}

GroupRows(rows, key) ==
    {r \in rows : assignments[r[1]].user_id = key[1]
                    /\ assignments[r[1]].variant_id = key[2]}

get_experiment_data(experiment_id) ==
    LET joined == Joined(experiment_id)
    IN  {LET rows == GroupRows(joined, key)
             conversions == CountType(rows, "purchase")
         IN  [user_id      |-> key[1],
              variant_id   |-> key[2],
              conversions  |-> conversions,
              add_to_carts |-> CountType(rows, "add_to_cart"),
              page_views   |-> CountType(rows, "page_view"),
              revenue      |-> ToNumericFillna(MaxRevenue(rows)),
              converted    |-> conversions > 0]
         : key \in GroupKeys(joined)}

(***************************************************************************)
(* calculate_conversion_rates.  The statistics read df only through        *)
(* df[df['variant_id'] == variant]: its length and the sums of its         *)
(* columns.  groups maps each value of df['variant_id'].unique() to those. *)
(***************************************************************************)
z == FDec(196, 100)

VariantStats(variant_data) ==
    LET n == variant_data.users
        conversions == variant_data.conversions
    IN  Let([conversion_rate \in {FDiv(FInt(conversions), FInt(n))},
             z2 \in {FMul(z, z)} |->
        Let([p \in {conversion_rate},
             denominator \in {FAdd(FInt(1), FDiv(z2, FInt(n)))} |->
        Let([centre_adjusted_probability \in
                 {FDiv(FAdd(p, FDiv(z2, FInt(2 * n))), denominator)},
             adjusted_standard_deviation \in
                 {FDiv(FSqrt(FDiv(FAdd(FMul(p, FSub(FInt(1), p)), FDiv(z2, FInt(4 * n))),
                                 FInt(n))),
                       denominator)} |->
        Let([lower_bound \in
                 {FSub(centre_adjusted_probability, FMul(z, adjusted_standard_deviation))},
             upper_bound \in
                 {FAdd(centre_adjusted_probability, FMul(z, adjusted_standard_deviation))} |->
            [users            |-> n,
             conversions      |-> conversions,
             conversion_rate  |-> conversion_rate,
             ci_lower         |-> IF FGt(lower_bound, FInt(0)) THEN lower_bound ELSE FInt(0),
             ci_upper         |-> IF FLt(upper_bound, FInt(1)) THEN upper_bound ELSE FInt(1),
             revenue_total    |-> FInt(variant_data.revenue),
             revenue_per_user |-> FDiv(FInt(variant_data.revenue), FInt(n)),
             add_to_cart_rate |-> FDiv(FInt(variant_data.add_to_carts), FInt(n))]])])])])

\* a variant of df['variant_id'].unique() has at least one row, so the
\* n == 0 branch never skips one
calculate_conversion_rates(g) ==
    [variant \in {v \in DOMAIN g : g[v].users # 0} |-> VariantStats(g[variant])]

(***************************************************************************)
(* statistical_significance_test.  scipy.stats.chi2_contingency is called  *)
(* with its defaults, so for a 2x2 table (one degree of freedom) it moves  *)
(* each observed count by min(0.5, |expected - observed|) towards the      *)
(* expected one (Yates' correction) before summing (obs - exp)^2 / exp,    *)
(* and it raises ValueError when an expected frequency is zero.            *)
(***************************************************************************)
FLit(m, e) == [k |-> "num", s |-> 0, m |-> m, e |-> e]

Half == FDec(1, 2)

\* scipy.stats.chi2.isf(0.05, 1) = 3.841458820694124
ChiCritical == FLit(<<32501, 1596, 27963, 245>>, -51)

\* the p-value is chi2.sf(statistic, 1), a strictly decreasing function
\* with sf(0) = 1.0 and sf(ChiCritical) = 0.05; the model keeps the two
\* facts the analyzer and its reports use: p == 1.0 and p < 0.05
PValue(chi2) ==
    IF IsZero(chi2) THEN "1.0"
    ELSE IF FGt(chi2, ChiCritical) THEN "<0.05"
    ELSE ">=0.05"

FAbs(x) == IF x.k = "nan" THEN x ELSE [x EXCEPT !.s = 0]

\* numpy.sign
FSign(x) == IF x.k = "nan" THEN x
            ELSE IF IsZero(x) THEN FZero
            ELSE IF x.s = 0 THEN FInt(1) ELSE FInt(-1)

FMinimum(x, y) == IF x.k = "nan" THEN x
                  ELSE IF y.k = "nan" THEN y
                  ELSE IF FLe(x, y) THEN x ELSE y

\* one term of the statistic for an observed count and its expected frequency
ChiTerm(observed, expected, correction) ==
    Let([diff \in {FSub(expected, FInt(observed))} |->
    Let([direction \in {FSign(diff)}, magnitude \in {FMinimum(Half, FAbs(diff))} |->
    Let([obs \in {IF correction
                  THEN FAdd(FInt(observed), FMul(magnitude, direction))
                  ELSE FInt(observed)} |->
    Let([d \in {FSub(obs, expected)} |->
        FDiv(FMul(d, d), expected)])])])])

\* scipy.stats.contingency.expected_freq for a cell
ExpectedFreq(rowsum, colsum, total) ==
    FDiv(FMul(FInt(rowsum), FInt(colsum)), FInt(total))

CorrectionDefault == TRUE

chi2_contingency(table) ==
    LET a == table[1][1]
        b == table[1][2]
        c == table[2][1]
        d == table[2][2]
        N == a + b + c + d
    IN  Let([e11 \in {ExpectedFreq(a + b, a + c, N)},
             e12 \in {ExpectedFreq(a + b, b + d, N)} |->
        Let([e21 \in {ExpectedFreq(c + d, a + c, N)},
             e22 \in {ExpectedFreq(c + d, b + d, N)} |->
            IF IsZero(e11) \/ IsZero(e12) \/ IsZero(e21) \/ IsZero(e22)
            THEN [kind |-> "raised", exc |-> "ValueError"]
            ELSE Let([chi2 \in {FAdd(FAdd(FAdd(ChiTerm(a, e11, CorrectionDefault),
                                                ChiTerm(b, e12, CorrectionDefault)),
                                           ChiTerm(c, e21, CorrectionDefault)),
                                      ChiTerm(d, e22, CorrectionDefault))} |->
                 [kind |-> "ok", chi2 |-> chi2, p_value |-> PValue(chi2), dof |-> 1]])])])

ContingencyTable(control_data, variant_data) ==
    <<<<control_data.conversions, control_data.users - control_data.conversions>>,
      <<variant_data.conversions, variant_data.users - variant_data.conversions>>>>

\* a plausible slip: the lift as a fraction, not as a percentage
RelativeLiftFraction(control_rate, variant_rate) ==
    IF FGt(control_rate, FInt(0))
    THEN FDiv(FSub(variant_rate, control_rate), control_rate)
    ELSE FInt(0)

RelativeLift(control_rate, variant_rate) ==
    IF FGt(control_rate, FInt(0))
    THEN FMul(FDiv(FSub(variant_rate, control_rate), control_rate), FInt(100))
    ELSE FInt(0)

\* the entry results[f'{control_variant}_vs_{variant}'] of a comparison
\* whose chi2_contingency call returned test
Comparison(control_data, variant_data, test) ==
    LET control_conversions == control_data.conversions
        control_users == control_data.users
        variant_conversions == variant_data.conversions
        variant_users == variant_data.users
        n == control_users + variant_users
        cramers_v == FSqrt(FDiv(test.chi2, FInt(n * (Min(2, 2) - 1))))
    IN  Let([control_rate \in {IF control_users > 0
                               THEN FDiv(FInt(control_conversions), FInt(control_users))
                               ELSE FInt(0)},
             variant_rate \in {IF variant_users > 0
                               THEN FDiv(FInt(variant_conversions), FInt(variant_users))
                               ELSE FInt(0)} |->
        Let([relative_lift \in {RelativeLift(control_rate, variant_rate)} |->
            [type |-> "dict",
             p_value |-> test.p_value,
             chi_square |-> test.chi2,
             significant |-> test.p_value = "<0.05",
             effect_size |-> cramers_v,
             relative_lift_percent |-> relative_lift,
             control_rate |-> control_rate,
             variant_rate |-> variant_rate]])])

\* a key of the result: <<control, "vs", variant>> stands for the string
\* f'{control_variant}_vs_{variant}', <<"error">> for the string 'error'
statistical_significance_test(g, control_variant) ==
    IF control_variant \notin DOMAIN g
    THEN [kind |-> "returned",
          value |-> [key \in {<<"error">>} |->
                        [type |-> "str", text |-> "Control variant not found"]]]
    ELSE LET others == DOMAIN g \ {control_variant}
         IN  Let([test \in {[v \in others |->
                    chi2_contingency(ContingencyTable(g[control_variant], g[v]))]} |->
                 IF \E v \in others : test[v].kind = "raised"
                 THEN [kind |-> "raised", exc |-> "ValueError"]
                 ELSE [kind |-> "returned",
                       value |-> [key \in {<<control_variant, "vs", v>> : v \in others} |->
                                    Comparison(g[control_variant], g[key[3]], test[key[3]])]]])

\* main, lines 495-529: the results are printed entry by entry; an entry
\* that is a string makes result['significant'] raise TypeError, and any
\* exception of the analysis ends in "Analysis failed" and return 1
MainExit(tests) ==
    IF tests.kind = "raised" THEN 1
    ELSE IF \E key \in DOMAIN tests.value : tests.value[key].type = "str" THEN 1
    ELSE 0

(***************************************************************************)
(* sample_size_analysis.  Rates and effects are given in hundredths: the   *)
(* argument 0.1 of the program is the float nearest to 10 / 100.           *)
(***************************************************************************)
Pct(n) == FDec(n, 100)

\* scipy.stats.norm.ppf at the arguments the model uses
NormPpf(q) ==
    IF FEq(q, Pct(80)) THEN FLit(<<4916, 20084, 14910, 215>>, -53)
    ELSE IF FEq(q, Pct(90)) THEN FLit(<<27954, 28100, 1264, 164>>, -52)
    ELSE IF FEq(q, FDec(975, 1000)) THEN FLit(<<32644, 25565, 28684, 250>>, -52)
    ELSE NaN

\* a plausible slip: 1 for p1
DenominatorSlip(p1, p2) == FMul(FSub(p2, FInt(1)), FSub(p2, FInt(1)))

Denominator(p1, p2) == FMul(FSub(p2, p1), FSub(p2, p1))

sample_size_analysis(baseline_rate, mde, alpha, power) ==
    Let([z_alpha \in {NormPpf(FSub(FInt(1), FDiv(alpha, FInt(2))))},
         z_beta \in {NormPpf(power)} |->
    Let([p1 \in {baseline_rate}, p2 \in {FMul(baseline_rate, FAdd(FInt(1), mde))} |->
    Let([p_pooled \in {FDiv(FAdd(p1, p2), FInt(2))} |->
    Let([root \in {FAdd(FMul(z_alpha,
                             FSqrt(FMul(FMul(FInt(2), p_pooled), FSub(FInt(1), p_pooled)))),
                        FMul(z_beta,
                             FSqrt(FAdd(FMul(p1, FSub(FInt(1), p1)),
                                        FMul(p2, FSub(FInt(1), p2))))))} |->
    Let([numerator \in {FMul(root, root)}, denominator \in {Denominator(p1, p2)} |->
         FCeilInt(FDiv(numerator, denominator))])])])])])

(***************************************************************************)
(* funnel_analysis: one SQL query; the DataFrame keeps the order of the    *)
(* rows the query returns.                                                 *)
(***************************************************************************)
\* FROM user_assignments ua JOIN analytics_events ae
\*   ON ua.user_id = ae.user_id WHERE ua.experiment_id = ?
\* a joined row is <<i, j>>: assignment i with event j
FunnelJoined(experiment_id) ==
    {r \in (DOMAIN assignments) \X (DOMAIN events) :
        /\ assignments[r[1]].experiment_id = experiment_id
        /\ events[r[2]].user_id = assignments[r[1]].user_id}

\* GROUP BY ua.variant_id, ae.event_type
FunnelKeys(rows) ==
    {<<assignments[r[1]].variant_id, events[r[2]].event_type>> : r \in rows}

FunnelGroup(rows, key) ==
    {r \in rows : /\ assignments[r[1]].variant_id = key[1]
                  /\ events[r[2]].event_type = key[2]}

\* the place of a text among the texts of the model in SQLite's BINARY
\* collation (memcmp of the bytes)
BinaryRank(text) ==
    CASE text = "add_to_cart" -> 1
      [] text = "control"     -> 2
      [] text = "page_view"   -> 3
      [] text = "purchase"    -> 4
      [] text = "treatment"   -> 5

\* a plausible slip: the two columns of ORDER BY exchanged
OrderByLeqSlip(k1, k2) ==
    \/ BinaryRank(k1[2]) < BinaryRank(k2[2])
    \/ BinaryRank(k1[2]) = BinaryRank(k2[2]) /\ BinaryRank(k1[1]) <= BinaryRank(k2[1])

\* ORDER BY ua.variant_id, ae.event_type
OrderByLeq(k1, k2) ==
    \/ BinaryRank(k1[1]) < BinaryRank(k2[1])
    \/ BinaryRank(k1[1]) = BinaryRank(k2[1]) /\ BinaryRank(k1[2]) <= BinaryRank(k2[2])

RECURSIVE OrderBy(_)
OrderBy(keys) ==
    IF keys = {} THEN <<>>
    ELSE LET first == CHOOSE k \in keys : \A o \in keys : OrderByLeq(k, o)
         IN  <<first>> \o OrderBy(keys \ {first})

funnel_analysis(experiment_id) ==
    LET joined == FunnelJoined(experiment_id)
        keys == OrderBy(FunnelKeys(joined))
    IN  [n \in DOMAIN keys |->
            LET rows == FunnelGroup(joined, keys[n])
            IN  [variant_id   |-> keys[n][1],
                 event_type   |-> keys[n][2],
                 unique_users |-> Cardinality({events[r[2]].user_id : r \in rows}),
                 total_events |-> Cardinality(rows)]]

IdleStats ==
    /\ groups = None
    /\ conversion_stats = None
    /\ significance_tests = None
    /\ exit_code = -1

IdleSize ==
    /\ ss_args = None
    /\ ss_results = <<>>

IdleDb ==
    /\ assignments = <<>>
    /\ events = <<>>
    /\ df = None

\* the methods of an analyzer that main did not start: connected by
\* __init__, no command line
IdleConn ==
    /\ args = None
    /\ connects = 1
    /\ conn = "open"

IdleMain ==
    /\ funnel_df = None
    /\ IdleConn

\* the data source is filled by the shop application, not by the analyzer
Init ==
    /\ assignments \in SeqsUpTo(AssignmentRows, MaxAssign)
    /\ events \in SeqsUpTo(EventRows, MaxEvents)
    /\ pc = "connected"
    /\ df = None
    /\ IdleStats
    /\ IdleSize
    /\ IdleMain

GetExperimentData ==
    /\ pc = "connected"
    /\ \E experiment_id \in Experiments :
          df' = [kind |-> "df", experiment_id |-> experiment_id,
                 rows |-> get_experiment_data(experiment_id)]
    /\ pc' = "fetched"
    /\ UNCHANGED <<dbVars, statVars, sizeVars, mainVars>>

(***************************************************************************)
(* The analysis of main on a non-empty df (lines 486-529, without the      *)
(* --report, --visualize and --funnel options).                            *)
(***************************************************************************)
VariantData(max) ==
    UNION {{[users |-> n, conversions |-> k, revenue |-> 10 * k, add_to_carts |-> k] :
               k \in 0..n} : n \in 1..max}

\* the end-to-end example: 500 users per variant, 50 and 75 converted,
\* all other counts 0, no revenue
ExampleGroups ==
    [v \in Variants |->
        [users |-> 500, conversions |-> IF v = "control" THEN 50 ELSE 75,
         revenue |-> 0, add_to_carts |-> 0]]

GroupInputs ==
    {ExampleGroups}
      \cup [{"control"} -> VariantData(MaxUsers)]
      \cup [{"treatment"} -> VariantData(MaxOther)]
      \cup {[v \in Variants |-> IF v = "control" THEN c ELSE t] :
               c \in VariantData(MaxUsers), t \in VariantData(MaxOther)}

InitStats ==
    /\ groups \in GroupInputs
    /\ conversion_stats = None
    /\ significance_tests = None
    /\ exit_code = -1
    /\ pc = "analysis"
    /\ IdleDb
    /\ IdleSize
    /\ IdleMain

CalculateConversionRates ==
    /\ pc = "analysis"
    /\ conversion_stats' = calculate_conversion_rates(groups)
    /\ pc' = "rates"
    /\ UNCHANGED <<dbVars, df, groups, significance_tests, exit_code, sizeVars, mainVars>>

StatisticalSignificanceTest ==
    /\ pc = "rates"
    /\ significance_tests' = statistical_significance_test(groups, "control")
    /\ pc' = "tested"
    /\ UNCHANGED <<dbVars, df, groups, conversion_stats, exit_code, sizeVars, mainVars>>

MainReturn ==
    /\ pc = "tested"
    /\ exit_code' = MainExit(significance_tests)
    /\ pc' = "exit"
    /\ UNCHANGED <<dbVars, df, groups, conversion_stats, significance_tests, sizeVars, mainVars>>

NextStats == CalculateConversionRates \/ StatisticalSignificanceTest \/ MainReturn

SpecStats == InitStats /\ [][NextStats]_vars

(***************************************************************************)
(* Two calls of sample_size_analysis that differ in mde only.              *)
(***************************************************************************)
BaselineRates == {0, 10, 50, 90, 100}

Mdes == {-50, -10, 0, 10, 50, 97, 98}

Powers == {80, 90}

InitSize ==
    /\ ss_args \in [baseline_rate : BaselineRates, mde : Mdes \X Mdes,
                    alpha : {5}, power : Powers]
    /\ ss_results = <<>>
    /\ pc = "planning"
    /\ IdleDb
    /\ IdleStats
    /\ IdleMain

SampleSizeAnalysis ==
    /\ pc = "planning"
    /\ Len(ss_results) < 2
    /\ ss_results' = Append(ss_results,
                            sample_size_analysis(Pct(ss_args.baseline_rate),
                                                 Pct(ss_args.mde[Len(ss_results) + 1]),
                                                 Pct(ss_args.alpha),
                                                 Pct(ss_args.power)))
    /\ UNCHANGED <<dbVars, df, pc, statVars, ss_args, mainVars>>

NextSize == SampleSizeAnalysis

SpecSize == InitSize /\ [][NextSize]_vars

(***************************************************************************)
(* funnel_analysis on a data source.  The query does not read the          *)
(* properties of an event, so the events carry no totalAmount here.        *)
(***************************************************************************)
FunnelEventRows == [user_id : Users, event_type : EventTypes, amount : {AmountNull}]

InitFunnel ==
    /\ assignments \in SeqsUpTo(AssignmentRows, MaxAssign)
    /\ events \in SeqsUpTo(FunnelEventRows, MaxEvents)
    /\ pc = "connected"
    /\ df = None
    /\ IdleStats
    /\ IdleSize
    /\ funnel_df = None
    /\ IdleConn

FunnelAnalysis ==
    /\ pc = "connected"
    /\ \E experiment_id \in Experiments :
          funnel_df' = [kind |-> "df", experiment_id |-> experiment_id,
                        rows |-> funnel_analysis(experiment_id)]
    /\ pc' = "funnel"
    /\ UNCHANGED <<dbVars, df, statVars, sizeVars, connVars>>

NextFunnel == FunnelAnalysis

SpecFunnel == InitFunnel /\ [][NextFunnel]_vars

(***************************************************************************)
(* main, from the parsed command line to its return.  pc is the position   *)
(* of main: "main" before the analyzer is constructed, "constructed",      *)
(* "try" at the start of the try block, "finally" when the block has       *)
(* been left with exit_code the value to return (a return statement or     *)
(* the except clause), "exit" when main has returned.                      *)
(***************************************************************************)
\* args.experiment when --experiment is not given (None) or given empty
NoExperiment == ""

\* what is behind the path args.db: a database with both tables, a file
\* sqlite3 can open that has no tables, a path sqlite3 cannot open
DbFiles == {"ok", "no_tables", "unreachable"}

MainAssignmentRows == [user_id : Users, experiment_id : {"exp1"}, variant_id : Variants]

MainEventRows ==
    [user_id : Users, event_type : {"purchase"}, amount : {AmountNum(10)}]
      \cup [user_id : Users, event_type : {"page_view"}, amount : {AmountNull}]

RECURSIVE ColumnSum(_, _)
\* variant_data[column].sum()
ColumnSum(rows, column) ==
    IF rows = {} THEN 0
    ELSE LET r == CHOOSE x \in rows : TRUE
         IN  r[column] + ColumnSum(rows \ {r}, column)

\* df as the statistics read it (the variable groups)
GroupsOf(rows) ==
    [variant \in {r.variant_id : r \in rows} |->
        LET variant_data == {r \in rows : r.variant_id = variant}
        IN  [users        |-> Cardinality(variant_data),
             conversions  |-> Cardinality({r \in variant_data : r.converted}),
             revenue      |-> ColumnSum(variant_data, "revenue"),
             add_to_carts |-> ColumnSum(variant_data, "add_to_carts")]]

InitMain ==
    /\ args \in [experiment : Experiments \cup {NoExperiment}, report : BOOLEAN,
                  visualize : BOOLEAN, funnel : BOOLEAN, db : DbFiles]
    /\ assignments \in SeqsUpTo(MainAssignmentRows, MaxAssign)
    /\ events \in SeqsUpTo(MainEventRows, MaxMainEvents)
    /\ connects = 0
    /\ conn = "none"
    /\ pc = "main"
    /\ df = None
    /\ funnel_df = None
    /\ IdleStats
    /\ IdleSize

\* lines 466-471: ABTestAnalyzer(args.db); a failure of connect_db is
\* re-raised and main returns 1
MainConstruct ==
    /\ pc = "main"
    /\ IF args.db = "unreachable"
       THEN /\ exit_code' = 1
            /\ pc' = "exit"
            /\ UNCHANGED <<connects, conn>>
       ELSE /\ connects' = connects + 1
            /\ conn' = "open"
            /\ pc' = "constructed"
            /\ UNCHANGED exit_code
    /\ UNCHANGED <<dbVars, df, groups, conversion_stats, significance_tests,
                   sizeVars, funnel_df, args>>

\* lines 473-475
MainCheckExperiment ==
    /\ pc = "constructed"
    /\ IF args.experiment = NoExperiment
       THEN exit_code' = 1 /\ pc' = "exit"
       ELSE exit_code' = exit_code /\ pc' = "try"
    /\ UNCHANGED <<dbVars, df, groups, conversion_stats, significance_tests,
                   sizeVars, mainVars>>

\* lines 504-521 after successful statistics: generate_report and
\* generate_visualizations write files and may raise; the funnel is printed
MainOptions ==
    \E report_raises \in (IF args.report THEN BOOLEAN ELSE {FALSE}) :
    \E visualize_raises \in (IF args.visualize THEN BOOLEAN ELSE {FALSE}) :
        IF report_raises \/ visualize_raises
        THEN exit_code' = 1 /\ funnel_df' = funnel_df
        ELSE /\ exit_code' = 0
             /\ funnel_df' = IF args.funnel
                             THEN [kind |-> "df", experiment_id |-> args.experiment,
                                   rows |-> funnel_analysis(args.experiment)]
                             ELSE funnel_df

\* lines 477-524: the try block with its except clause
MainTry ==
    /\ pc = "try"
    /\ IF args.db = "no_tables"
       THEN \* pd.read_sql_query raises: no such table
            /\ exit_code' = 1
            /\ UNCHANGED <<df, groups, conversion_stats, significance_tests, funnel_df>>
       ELSE /\ df' = [kind |-> "df", experiment_id |-> args.experiment,
                      rows |-> get_experiment_data(args.experiment)]
            /\ IF df'.rows = {}
               THEN /\ exit_code' = 1
                    /\ UNCHANGED <<groups, conversion_stats, significance_tests, funnel_df>>
               ELSE /\ groups' = GroupsOf(df'.rows)
                    /\ conversion_stats' = calculate_conversion_rates(groups')
                    /\ significance_tests' = statistical_significance_test(groups', "control")
                    /\ IF MainExit(significance_tests') = 1
                       THEN exit_code' = 1 /\ funnel_df' = funnel_df
                       ELSE MainOptions
    /\ pc' = "finally"
    /\ UNCHANGED <<dbVars, sizeVars, connVars>>

\* lines 526-529: analyzer.conn.close(), then the return
MainFinally ==
    /\ pc = "finally"
    /\ conn' = "closed"
    /\ pc' = "exit"
    /\ UNCHANGED <<dbVars, df, statVars, sizeVars, funnel_df, args, connects>>

NextMain == MainConstruct \/ MainCheckExperiment \/ MainTry \/ MainFinally

SpecMain == InitMain /\ [][NextMain]_vars

Next == GetExperimentData

Spec == Init /\ [][Next]_vars

(***************************************************************************)
(* Properties of the aggregator (specification Spec).                      *)
(***************************************************************************)
Fetched == pc = "fetched"

\* the assignment rows of the experiment df was fetched for
ExperimentAssignments ==
    {i \in DOMAIN assignments : assignments[i].experiment_id = df.experiment_id}

UserRows(u) == {r \in df.rows : r.user_id = u}

\* the variant of the first assignment row of user u
FirstSeenVariant(u) ==
    LET own == {i \in ExperimentAssignments : assignments[i].user_id = u}
    IN  assignments[CHOOSE i \in own : \A k \in own : i <= k].variant_id

RECURSIVE PurchaseSum(_, _)
\* the sum of the numeric totalAmount of the purchase events 1..n of user u
PurchaseSum(u, n) ==
    IF n = 0 THEN 0
    ELSE PurchaseSum(u, n - 1)
           + (IF events[n].user_id = u /\ events[n].event_type = "purchase"
                   /\ events[n].amount.t = "num"
              THEN events[n].amount.v ELSE 0)

\* C2: every user with an assignment row for the experiment has exactly one
\* row in the result of get_experiment_data, and that row carries the
\* variant of the user's first assignment row (also when the user has no
\* event, and also when the user has conflicting assignment rows).
C2_OneRowPerAssignedUser ==
    Fetched =>
        \A i \in ExperimentAssignments :
            LET u == assignments[i].user_id
            IN  /\ Cardinality(UserRows(u)) = 1
                /\ \A r \in UserRows(u) : r.variant_id = FirstSeenVariant(u)

\* C3: the revenue of every aggregated row is the sum of the numeric
\* totalAmount values of all purchase events of the row's user (0 when
\* there is none).
C3_RevenueIsPurchaseSum ==
    Fetched => \A r \in df.rows : r.revenue = PurchaseSum(r.user_id, Len(events))

(***************************************************************************)
(* Properties of the statistics (specification SpecStats).                 *)
(***************************************************************************)
RatesDone == pc \in {"rates", "tested", "exit"}

TestDone == pc \in {"tested", "exit"}

ControlKey == <<"control", "vs", "treatment">>

BothVariants == DOMAIN groups = Variants

\* C1: for every variant calculate_conversion_rates emits,
\* 0 <= ci_lower <= conversion_rate <= ci_upper <= 1.
C1_WilsonBoundsOrdered ==
    RatesDone =>
        \A v \in DOMAIN conversion_stats :
            LET r == conversion_stats[v]
            IN  /\ FLe(FInt(0), r.ci_lower)
                /\ FLe(r.ci_lower, r.conversion_rate)
                /\ FLe(r.conversion_rate, r.ci_upper)
                /\ FLe(r.ci_upper, FInt(1))

\* C4: when the control variant has no row in the data, the call of
\* statistical_significance_test fails (raises); it does not return a
\* mapping for the caller to iterate.
C4_ControlNotFoundFails ==
    (TestDone /\ "control" \notin DOMAIN groups) => significance_tests.kind = "raised"

\* a row or a column of the 2x2 table sums to zero
Degenerate(table) ==
    \/ table[1][1] + table[1][2] = 0
    \/ table[2][1] + table[2][2] = 0
    \/ table[1][1] + table[2][1] = 0
    \/ table[1][2] + table[2][2] = 0

GroupsTable == ContingencyTable(groups["control"], groups["treatment"])

\* C5: a comparison whose contingency table has a zero row or column sum
\* does not raise; its entry has p_value = 1.0 and chi_square = 0.0.
C5_DegenerateTableFallback ==
    (TestDone /\ BothVariants /\ Degenerate(GroupsTable)) =>
        /\ significance_tests.kind = "returned"
        /\ significance_tests.value[ControlKey].p_value = "1.0"
        /\ IsZero(significance_tests.value[ControlKey].chi_square)

\* |x - y| <= |y| / 10^9
Close(x, y) == FLe(FAbs(FSub(x, y)), FDiv(FAbs(y), FInt(1000000000)))

\* N * (a*d - b*c)^2 / ((a+b) * (c+d) * (a+c) * (b+d))
PearsonUncorrected(table) ==
    LET a == table[1][1]
        b == table[1][2]
        c == table[2][1]
        d == table[2][2]
        det == FInt(a * d - b * c)
    IN  FDiv(FMul(FInt(a + b + c + d), FMul(det, det)),
             FMul(FMul(FInt(a + b), FInt(c + d)), FMul(FInt(a + c), FInt(b + d))))

\* C6: for a table with non-zero row and column sums, chi_square is the
\* Pearson statistic without continuity correction,
\* N*(a*d - b*c)^2 / ((a+b)*(c+d)*(a+c)*(b+d)), and effect_size is
\* sqrt(chi_square / N).
C6_ChiSquareUncorrected ==
    (TestDone /\ BothVariants /\ ~Degenerate(GroupsTable)) =>
        /\ significance_tests.kind = "returned"
        /\ LET r == significance_tests.value[ControlKey]
               N == groups["control"].users + groups["treatment"].users
           IN  /\ Close(r.chi_square, PearsonUncorrected(GroupsTable))
               /\ FEq(r.effect_size, FSqrt(FDiv(r.chi_square, FInt(N))))

\* C8: for 500 control users with 50 conversions and 500 treatment users
\* with 75, the reported rates are 0.10 and 0.15, the relative lift of
\* control_vs_treatment is 50 (percent, up to rounding), and the comparison
\* is significant: p_value < 0.05, chi_square above the critical value.
C8_EndToEndExample ==
    (TestDone /\ groups = ExampleGroups) =>
        /\ FEq(conversion_stats["control"].conversion_rate, Pct(10))
        /\ FEq(conversion_stats["treatment"].conversion_rate, Pct(15))
        /\ significance_tests.kind = "returned"
        /\ LET r == significance_tests.value[ControlKey]
           IN  /\ Close(r.relative_lift_percent, FInt(50))
               /\ r.significant
               /\ r.p_value = "<0.05"
               /\ FGt(r.chi_square, FDec(3841, 1000))

C8_Witness ==
    /\ pc = "exit"
    /\ groups = ExampleGroups
    /\ significance_tests.kind = "returned"
    /\ exit_code = 0

\* C9: comparing the control with a variant of identical counts (n users,
\* k conversions, 0 <= k <= n) gives relative_lift_percent = 0,
\* p_value = 1.0, effect_size = 0 and significant = false.
C9_IdenticalCountsNoEffect ==
    (/\ TestDone
     /\ BothVariants
     /\ groups["control"].users = groups["treatment"].users
     /\ groups["control"].conversions = groups["treatment"].conversions) =>
        /\ significance_tests.kind = "returned"
        /\ LET r == significance_tests.value[ControlKey]
           IN  /\ IsZero(r.relative_lift_percent)
               /\ r.p_value = "1.0"
               /\ IsZero(r.effect_size)
               /\ ~r.significant

(***************************************************************************)
(* Properties of the sample size planner (specification SpecSize).         *)
(***************************************************************************)
ValidRate == ss_args.baseline_rate > 0 /\ ss_args.baseline_rate < 100

Calls == 1..Len(ss_results)

\* C7: a call with baseline_rate <= 0, baseline_rate >= 1 or mde = 0 ends
\* in an error and returns no sample size; every other call returns a
\* positive integer.
C7_InvalidParametersRejected ==
    \A i \in Calls :
        IF ValidRate /\ ss_args.mde[i] # 0
        THEN ss_results[i].kind = "int" /\ ss_results[i].value > 0
        ELSE ss_results[i].kind = "raised"

BothCalled == pc = "planning" /\ Len(ss_results) = 2

FunnelDone == pc = "funnel"

FunnelRowKey(n) == <<funnel_df.rows[n].variant_id, funnel_df.rows[n].event_type>>

\* (variant, event type) k1 comes strictly before k2: by variant, then by
\* event type, each in the order of the texts
StrictlyBefore(k1, k2) ==
    \/ BinaryRank(k1[1]) < BinaryRank(k2[1])
    \/ k1[1] = k2[1] /\ BinaryRank(k1[2]) < BinaryRank(k2[2])

\* the assignments of the analysed experiment and the events of their users
FunnelAssignments ==
    {i \in DOMAIN assignments : assignments[i].experiment_id = funnel_df.experiment_id}

FunnelEvents(i) == {j \in DOMAIN events : events[j].user_id = assignments[i].user_id}

\* C11: the rows funnel_analysis returns are in strictly increasing order
\* of (variant, event type), so no key occurs twice; there are at most
\* #variants x #distinct event types rows; every key that appears has at
\* least one event; and in each row unique_users <= total_events.
C11_FunnelRowsOrdered ==
    FunnelDone =>
        LET rows == funnel_df.rows
            variants == {assignments[i].variant_id : i \in FunnelAssignments}
            types == {events[j].event_type : j \in DOMAIN events}
        IN  /\ \A n \in 1..(Len(rows) - 1) : StrictlyBefore(FunnelRowKey(n), FunnelRowKey(n + 1))
            /\ \A n, m \in DOMAIN rows : FunnelRowKey(n) = FunnelRowKey(m) => n = m
            /\ Len(rows) <= Cardinality(variants) * Cardinality(types)
            /\ \A n \in DOMAIN rows :
                  /\ \E i \in FunnelAssignments : \E j \in FunnelEvents(i) :
                        /\ assignments[i].variant_id = rows[n].variant_id
                        /\ events[j].event_type = rows[n].event_type
                  /\ rows[n].total_events >= 1
                  /\ rows[n].unique_users <= rows[n].total_events

\* a funnel of four rows: two variants with two event types each
C11_Witness ==
    /\ FunnelDone
    /\ Len(funnel_df.rows) = 4
    /\ FunnelRowKey(1)[1] # FunnelRowKey(4)[1]


(***************************************************************************)
(* main (SpecMain).                                                        *)
(***************************************************************************)
MainReturned == pc = "exit"

\* C12: in a run of main the connection is opened at most once, and when
\* main has returned after opening it (whatever the path: no --experiment,
\* empty data, an exception of the analysis, normal completion) it was
\* opened exactly once and is closed.
C12_ConnectionClosedOnReturn ==
    /\ connects <= 1
    /\ (MainReturned /\ conn # "none") => (connects = 1 /\ conn = "closed")

\* main has returned from the missing --experiment check
C12_MissingExperimentReturn ==
    /\ MainReturned
    /\ conn # "none"
    /\ args.experiment = NoExperiment

=============================================================================
